---- MODULE Spec2Model ----
(***************************************************************************)
(* ERAB EW-1 Modbus logger: the value decoder (ew1_reader.py,              *)
(* _convert_raw_value), the register poll of EW1Reader, the address        *)
(* scanner and interpret_value (scan_registers.py), the logging cycle and  *)
(* the interval loop of main with its signal handler (logger.py).          *)
(*                                                                         *)
(* Numbers.  Python integers are unbounded and the decoder builds values   *)
(* up to 2^32 - 1, beyond the integers TLC evaluates.  An integer is       *)
(* therefore held as two limbs [h, l] that stand for h * 2^16 + l with     *)
(* l in 0..65535 (h may be negative).  float(n) of such an integer is      *)
(* exact (|n| < 2^53) and is the record [kind |-> "int", h, l].            *)
(***************************************************************************)
EXTENDS Integers, Sequences, FiniteSets, TLC

VARIABLES
    d_regs,      \* decoder: the `registers` argument of _convert_raw_value
    d_type,      \* decoder: the `data_type` argument
    d_out,       \* decoder: what the call returned or raised
    d_calls,     \* decoder: number of calls made so far (0 or 1: before / after)
    s_pc,        \* scanner: position in scan_registers
    s_type,      \* scanner: the `register_type` argument
    s_start,     \* scanner: the `start_address` argument
    s_end,       \* scanner: the `end_address` argument (exclusive)
    s_addr,      \* scanner: the loop variable `address` (next address to probe)
    s_found,     \* scanner: `found_registers`, a list of <<address, value>>
    s_calls,     \* scanner: the calls made on the ModbusTcpClient, in order
    registers,   \* reader: self.registers, a list of RegisterDefinition
    r_client,    \* reader: self._client, "None" or "client" (a ModbusTcpClient)
    cli,         \* the ModbusTcpClient built last: socket open?, close() calls
    sessions,    \* number of transport sessions open (all clients ever built)
    pc,          \* position of the program that drives the reader
    last,        \* the call that completed last: what it returned or raised
    trace,       \* calls made on the transport and the sink by the current call
    sink,        \* the sheet: number of rows written and the row written last
    cycles,      \* number of logging cycles started
    running,     \* logger.py: the global shutdown flag `running`
    m_pc,        \* position of main in its interval loop ("off": no loop runs)
    interval,    \* main: args.interval, in seconds
    waited,      \* main: seconds slept since wait_until was set
    i_value,     \* interpret_value: the `value` argument
    i_out,       \* interpret_value: the interpretations listed, in order
    i_calls,     \* interpret_value: number of calls made so far (0 or 1)
    c_config,    \* create_reader_from_config: the `config` argument
    c_reader,    \* create_reader_from_config: the EW1Reader it returned
    c_calls      \* create_reader_from_config: number of calls made so far

decVars == <<d_regs, d_type, d_out, d_calls>>

scanVars == <<s_pc, s_type, s_start, s_end, s_addr, s_found, s_calls>>

readerVars == <<registers, r_client, cli, sessions, pc, last, trace>>

logVars == <<sink, cycles>>

mainVars == <<running, m_pc, interval, waited>>

intVars == <<i_value, i_out, i_calls>>

configVars == <<c_config, c_reader, c_calls>>

vars == <<d_regs, d_type, d_out, d_calls,
          s_pc, s_type, s_start, s_end, s_addr, s_found, s_calls,
          registers, r_client, cli, sessions, pc, last, trace, sink, cycles,
          running, m_pc, interval, waited, i_value, i_out, i_calls,
          c_config, c_reader, c_calls>>

(***************************************************************************)
(* Bounds and sample sets                                                  *)
(***************************************************************************)
\* words 0..MaxSmallWord join the boundary words in the two-word samples
MaxSmallWord == 2

WordBase == 65536

AllWords == 0 .. (WordBase - 1)

BoundaryWords == {250, 16456, 32767, 32768, 32769, 62915, 65526, 65535}

PairWords == BoundaryWords \cup (0 .. MaxSmallWord)

DataTypes == {"uint16", "int16", "uint32", "int32", "float32"}

\* "bcd" stands for any data_type string outside DataTypes
AnyDataType == DataTypes \cup {"bcd"}

(***************************************************************************)
(* Two-limb integers                                                       *)
(***************************************************************************)
Wide(h, l) == [h |-> h, l |-> l]

FromInt(n) == Wide(n \div WordBase, n % WordBase)

\* defined for |h| small enough that the product stays inside TLC's integers
ToInt(v) == v.h * WordBase + v.l

WideGeq(a, b) == (a.h > b.h) \/ (a.h = b.h /\ a.l >= b.l)

WideSub(a, b) ==
    IF a.l >= b.l THEN Wide(a.h - b.h, a.l - b.l)
    ELSE Wide(a.h - b.h - 1, a.l + WordBase - b.l)

RECURSIVE BitOr(_, _)
BitOr(a, b) ==
    IF a = 0 THEN b
    ELSE IF b = 0 THEN a
    ELSE (IF a % 2 = 1 \/ b % 2 = 1 THEN 1 ELSE 0) + 2 * BitOr(a \div 2, b \div 2)

\* w << 16 for a 16-bit word w
ShiftLeft16(w) == Wide(w, 0)

\* a | b on two-limb non-negative integers
WideOr(a, b) == Wide(BitOr(a.h, b.h), BitOr(a.l, b.l))

(***************************************************************************)
(* ew1_reader.py: EW1Reader._convert_raw_value                             *)
(***************************************************************************)
IntVal(v) == [kind |-> "int", h |-> v.h, l |-> v.l]

\* a float that holds an IEEE-754 single-precision value, by its fields:
\* h is sign * 256 + biased exponent (8 bits), l is the fraction (23 bits).
\* Exponent 1..254 is the number (-1)^sign * (2^23 + l) * 2^(exponent - 150),
\* exponent 0 is (-1)^sign * l * 2^-149, exponent 255 is an infinity or NaN.
F32Val(se, fraction) == [kind |-> "f32", h |-> se, l |-> fraction]

\* struct.pack('>HH', hi, lo): four bytes, most significant first
PackHH(hi, lo) == << hi \div 256, hi % 256, lo \div 256, lo % 256 >>

\* struct.unpack('>f', b)[0]: sign is bit 7 of b[1], the exponent the next
\* 8 bits, the fraction the remaining 23 bits
UnpackFloat(b) ==
    F32Val((b[1] \div 128) * 256 + (b[1] % 128) * 2 + (b[2] \div 128),
           (b[2] % 128) * WordBase + b[3] * 256 + b[4])

\* struct.pack('>f', x) for a float x that holds a single-precision value
\* (tests/test_ew1_reader.py, line 225)
PackFloat(x) ==
    LET sign == x.h \div 256
        exponent == x.h % 256
    IN  << sign * 128 + exponent \div 2,
           (exponent % 2) * 128 + x.l \div WordBase,
           (x.l % WordBase) \div 256,
           x.l % 256 >>

\* struct.unpack('>HH', b) (tests/test_ew1_reader.py, line 226)
UnpackHH(b) == << b[1] * 256 + b[2], b[3] * 256 + b[4] >>

IndexError == [kind |-> "IndexError", h |-> 0, l |-> 0]

\* each specification below runs one component; these hold the others still
DecodeIdle ==
    /\ d_regs = <<>>
    /\ d_type = "uint16"
    /\ d_out = IndexError
    /\ d_calls = 0

ScanIdle ==
    /\ s_pc = "off"
    /\ s_type = "holding"
    /\ s_start = 0
    /\ s_end = 0
    /\ s_addr = 0
    /\ s_found = <<>>
    /\ s_calls = <<>>

\* Optional[float] as the poll returns it.  A scale s stands for s / 10
\* (1 is 0.1, 10 is 1.0); "tenths" is the number (h * 2^16 + l) / 10,
\* the decoded integer already multiplied by the scale; "f32" is the float
\* with the single-precision fields h, l (see F32Val) times the scale `by`.
Val(kind, h, l, by) == [kind |-> kind, h |-> h, l |-> l, by |-> by]

NoneVal == Val("None", 0, 0, 0)

Raise(exc) == Val(exc, 0, 0, 0)

RaiseKinds == {"RuntimeError", "ConnectionError", "ModbusException", "Exception"}

IsRaise(v) == v.kind \in RaiseKinds

\* what a completed call left: its name argument, "" or the exception that
\* escaped, and the value, dict or bool returned
Ret(op, arg, raised, ret, data, flag) ==
    [op |-> op, arg |-> arg, raised |-> raised, ret |-> ret, data |-> data, flag |-> flag]

NoCall == Ret("none", "", "", NoneVal, <<>>, FALSE)

NewClient(ok) == [connected |-> ok, closes |-> 0]

EmptySink == [rows |-> 0, row |-> <<>>]

\* no interval loop runs: the flag keeps the value the module gives it
MainIdle ==
    /\ running = TRUE
    /\ m_pc = "off"
    /\ interval = 0
    /\ waited = 0

InterpretIdle ==
    /\ i_value = 0
    /\ i_out = <<>>
    /\ i_calls = 0

\* a Python dict with no key, and the reader before any was built
EmptyDict == [k \in {} |-> k]

NoReader == [unit_id |-> 0, registers |-> <<>>]

ConfigIdle ==
    /\ c_config = EmptyDict
    /\ c_reader = NoReader
    /\ c_calls = 0

ReaderIdle ==
    /\ registers = <<>>
    /\ r_client = "None"
    /\ cli = NewClient(FALSE)
    /\ sessions = 0
    /\ pc = "off"
    /\ last = NoCall
    /\ trace = <<>>
    /\ sink = EmptySink
    /\ cycles = 0

\* registers[i] with Python's 0-based index; i >= Len raises IndexError
HasIndex(regs, i) == i + 1 <= Len(regs)

ConvertUint16(regs) ==
    IF ~HasIndex(regs, 0) THEN IndexError
    ELSE IntVal(FromInt(regs[1]))

\* variant: the sign test misses 0x8000
ConvertInt16_OffByOne(regs) ==
    IF ~HasIndex(regs, 0) THEN IndexError
    ELSE LET val == regs[1]
         IN  IF val > 32768 THEN IntVal(FromInt(val - 65536))
             ELSE IntVal(FromInt(val))

ConvertInt16(regs) ==
    IF ~HasIndex(regs, 0) THEN IndexError
    ELSE LET val == regs[1]
         IN  IF val >= 32768 THEN IntVal(FromInt(val - 65536))
             ELSE IntVal(FromInt(val))

\* variant: low word first
ConvertUint32_LowFirst(regs) ==
    IF ~HasIndex(regs, 1) THEN IndexError
    ELSE IntVal(WideOr(ShiftLeft16(regs[2]), FromInt(regs[1])))

ConvertUint32(regs) ==
    IF ~HasIndex(regs, 1) THEN IndexError
    ELSE IntVal(WideOr(ShiftLeft16(regs[1]), FromInt(regs[2])))

\* variant: the combined value is never sign-corrected
ConvertInt32_NoSign(regs) ==
    IF ~HasIndex(regs, 1) THEN IndexError
    ELSE IntVal(WideOr(ShiftLeft16(regs[1]), FromInt(regs[2])))

ConvertInt32(regs) ==
    IF ~HasIndex(regs, 1) THEN IndexError
    ELSE LET val == WideOr(ShiftLeft16(regs[1]), FromInt(regs[2]))
         IN  IF WideGeq(val, Wide(32768, 0))
             THEN IntVal(WideSub(val, Wide(65536, 0)))
             ELSE IntVal(val)

\* variant: the low word is taken first
ConvertFloat32_LowFirst(regs) ==
    IF ~HasIndex(regs, 1) THEN IndexError
    ELSE UnpackFloat(PackHH(regs[2], regs[1]))

\* lines 172-176
ConvertFloat32(regs) ==
    IF ~HasIndex(regs, 1) THEN IndexError
    ELSE LET raw_bytes == PackHH(regs[1], regs[2])
         IN  UnpackFloat(raw_bytes)

\* variant: a data type that is not known is refused
_convert_raw_value_Strict(regs, data_type) ==
    CASE data_type = "uint16"  -> ConvertUint16(regs)
      [] data_type = "int16"   -> ConvertInt16(regs)
      [] data_type = "uint32"  -> ConvertUint32(regs)
      [] data_type = "int32"   -> ConvertInt32(regs)
      [] data_type = "float32" -> ConvertFloat32(regs)
      [] OTHER                 -> [kind |-> "ValueError", h |-> 0, l |-> 0]

\* lines 154-178
_convert_raw_value(regs, data_type) ==
    CASE data_type = "uint16"  -> ConvertUint16(regs)
      [] data_type = "int16"   -> ConvertInt16(regs)
      [] data_type = "uint32"  -> ConvertUint32(regs)
      [] data_type = "int32"   -> ConvertInt32(regs)
      [] data_type = "float32" -> ConvertFloat32(regs)
      [] OTHER                 -> ConvertUint16(regs)

(***************************************************************************)
(* The transport (pymodbus ModbusTcpClient), an external collaborator.     *)
(* A read returns a result object or raises.  A result that is not an      *)
(* error carries `count` words in .registers (holding / input banks) or    *)
(* the bit in .bits[0] (coil / discrete banks); the result of a bit bank   *)
(* has no words, and taking .registers[0] of it raises.                    *)
(***************************************************************************)
BankKinds == {"holding", "input", "coil", "discrete"}

WordBanks == {"holding", "input"}

\* "bogus" stands for any register_type string outside BankKinds
AnyBank == BankKinds \cup {"bogus"}

ReadWords == {250, 65526}

ReadFn(bank) ==
    CASE bank = "holding"  -> "read_holding_registers"
      [] bank = "input"    -> "read_input_registers"
      [] bank = "coil"     -> "read_coils"
      [] bank = "discrete" -> "read_discrete_inputs"

Result(kind, regs, bits) == [kind |-> kind, registers |-> regs, bits |-> bits]

NoResult == Result("none", <<>>, <<>>)

\* isError() is true, or the call raised
FailKinds == {"error", "ModbusException", "Exception"}

Failures == { Result(k, <<>>, <<>>) : k \in FailKinds }

WordLists(count) ==
    IF count = 1 THEN { <<w>> : w \in ReadWords }
    ELSE { w \in ReadWords \X ReadWords : w[1] # w[2] }

OkResults(bank, count) ==
    IF bank \in WordBanks
    THEN { Result("ok", ws, <<>>) : ws \in WordLists(count) }
    ELSE { Result("ok", <<>>, <<b>>) : b \in BOOLEAN }

\* what a read of `count` items on `bank` can produce
ReadOutcomes(bank, count) == OkResults(bank, count) \cup Failures

\* one call on a collaborator: the method, its arguments and what came back
Call(fn, address, count, slave, out) ==
    [fn |-> fn, address |-> address, count |-> count, slave |-> slave, out |-> out]

ConnectCall(ok) ==
    Call("connect", 0, 0, 0, Result(IF ok THEN "ok" ELSE "error", <<>>, <<>>))

CloseCall == Call("close", 0, 0, 0, NoResult)

ReadFns == { ReadFn(b) : b \in BankKinds }

IsRead(c) == c.fn \in ReadFns

CountCalls(calls, fn) == Cardinality({ i \in 1 .. Len(calls) : calls[i].fn = fn })

ReadCalls(calls) == SelectSeq(calls, IsRead)

(***************************************************************************)
(* scan_registers.py: scan_registers                                       *)
(***************************************************************************)
\* addresses 0 .. MaxAddr are the scan range arguments
MaxAddr == 3

\* the `unit_id` argument, at its default
ScanUnitId == 1

ScanInit ==
    /\ DecodeIdle
    /\ ReaderIdle
    /\ MainIdle
    /\ InterpretIdle
    /\ ConfigIdle
    /\ s_pc = "start"
    /\ s_type \in AnyBank
    /\ s_start \in 0 .. MaxAddr
    /\ s_end \in 0 .. MaxAddr
    /\ s_addr = 0
    /\ s_found = <<>>
    /\ s_calls = <<>>

\* variant: the result of connect() is ignored
ScanConnect_Unchecked ==
    /\ s_pc = "start"
    /\ \E ok \in BOOLEAN :
          /\ s_calls' = Append(s_calls, ConnectCall(ok))
          /\ s_pc' = "loop"
          /\ s_addr' = s_start
    /\ UNCHANGED <<s_type, s_start, s_end, s_found>>
    /\ UNCHANGED <<decVars, readerVars, logVars, mainVars, intVars, configVars>>

\* lines 47-52: build the client, connect, raise ConnectionError on failure
ScanConnect ==
    /\ s_pc = "start"
    /\ \E ok \in BOOLEAN :
          /\ s_calls' = Append(s_calls, ConnectCall(ok))
          /\ s_pc' = (IF ok THEN "loop" ELSE "ConnectionError")
          /\ s_addr' = (IF ok THEN s_start ELSE s_addr)
    /\ UNCHANGED <<s_type, s_start, s_end, s_found>>
    /\ UNCHANGED <<decVars, readerVars, logVars, mainVars, intVars, configVars>>

\* lines 69-74: what the iteration appends for the result `out`
\* variant: an error result is recorded like a good one
ScanAppend_NoErrorCheck(found, address, out) ==
    IF out.kind \in {"ModbusException", "Exception"} THEN found
    ELSE IF s_type \in {"coil", "discrete"}
         THEN (IF Len(out.bits) = 0 THEN Append(found, <<address, FALSE>>)
               ELSE Append(found, <<address, out.bits[1]>>))
         ELSE (IF Len(out.registers) = 0 THEN Append(found, <<address, 0>>)
               ELSE Append(found, <<address, out.registers[1]>>))

ScanAppend(found, address, out) ==
    IF out.kind \in {"ModbusException", "Exception"} THEN found
    ELSE IF out.kind = "error" THEN found
    ELSE IF s_type \in {"coil", "discrete"}
         THEN (IF Len(out.bits) = 0 THEN found
               ELSE Append(found, <<address, out.bits[1]>>))
         ELSE (IF Len(out.registers) = 0 THEN found
               ELSE Append(found, <<address, out.registers[1]>>))

\* variant: a register type that is not known is read as holding registers
ScanProbe_UnknownAsHolding ==
    /\ s_pc = "loop"
    /\ s_addr < s_end
    /\ LET bank == IF s_type \in BankKinds THEN s_type ELSE "holding"
       IN  \E out \in ReadOutcomes(bank, 1) :
              /\ s_calls' = Append(s_calls, Call(ReadFn(bank), s_addr, 1, ScanUnitId, out))
              /\ s_found' = ScanAppend(s_found, s_addr, out)
    /\ s_addr' = s_addr + 1
    /\ UNCHANGED <<s_pc, s_type, s_start, s_end>>
    /\ UNCHANGED <<decVars, readerVars, logVars, mainVars, intVars, configVars>>

\* lines 55-79: one iteration of the for loop
ScanProbe ==
    /\ s_pc = "loop"
    /\ s_addr < s_end
    /\ IF s_type \in BankKinds
       THEN \E out \in ReadOutcomes(s_type, 1) :
               /\ s_calls' = Append(s_calls, Call(ReadFn(s_type), s_addr, 1, ScanUnitId, out))
               /\ s_found' = ScanAppend(s_found, s_addr, out)
       ELSE UNCHANGED <<s_calls, s_found>>
    /\ s_addr' = s_addr + 1
    /\ UNCHANGED <<s_pc, s_type, s_start, s_end>>
    /\ UNCHANGED <<decVars, readerVars, logVars, mainVars, intVars, configVars>>

\* variant: the client is left open
ScanFinish_NoClose ==
    /\ s_pc = "loop"
    /\ s_addr >= s_end
    /\ s_pc' = "returned"
    /\ UNCHANGED <<s_type, s_start, s_end, s_addr, s_found, s_calls>>
    /\ UNCHANGED <<decVars, readerVars, logVars, mainVars, intVars, configVars>>

\* lines 81-84: the range is exhausted; finally close, then return
ScanFinish ==
    /\ s_pc = "loop"
    /\ s_addr >= s_end
    /\ s_calls' = Append(s_calls, CloseCall)
    /\ s_pc' = "returned"
    /\ UNCHANGED <<s_type, s_start, s_end, s_addr, s_found>>
    /\ UNCHANGED <<decVars, readerVars, logVars, mainVars, intVars, configVars>>

ScanNext == ScanConnect \/ ScanProbe \/ ScanFinish

SpecScan == ScanInit /\ [][ScanNext]_vars

(***************************************************************************)
(* scan_registers.py: interpret_value.  The string it returns is the join  *)
(* of its interpretations; an interpretation is held as its label and the  *)
(* number printed after it, num / den (den is 10 where the source divides  *)
(* by ten and prints one decimal, which renders num / 10 exactly).         *)
(***************************************************************************)
Interp(label, num, den) == [label |-> label, num |-> num, den |-> den]

\* line 95
SignedOf(value) == IF value < 32768 THEN value ELSE value - 65536

\* variant: the signed reading is listed for every value
InterpretInt16_Always(value) == <<Interp("int16", SignedOf(value), 1)>>

\* lines 95-97
InterpretInt16(value) ==
    IF SignedOf(value) # value THEN <<Interp("int16", SignedOf(value), 1)>>
    ELSE <<>>

\* variant: the upper bound is inclusive
InterpretTemp_Inclusive(value) ==
    IF -50 * 10 < value /\ value <= 150 * 10 THEN <<Interp("temp", value, 10)>>
    ELSE <<>>

\* lines 100-102: temp = value / 10.0 and -50 < temp < 150; the division is
\* exact at the bounds (-500 and 1500) and monotonic, so the test is the
\* same on tenths
InterpretTemp(value) ==
    IF -50 * 10 < value /\ value < 150 * 10 THEN <<Interp("temp", value, 10)>>
    ELSE <<>>

\* variant: the upper bound is strict, as the temperature bound is
InterpretPct_Strict(value) ==
    IF 0 <= value /\ value < 1000 THEN <<Interp("pct", value, 10)>>
    ELSE <<>>

\* lines 105-106
InterpretPct(value) ==
    IF 0 <= value /\ value <= 1000 THEN <<Interp("pct", value, 10)>>
    ELSE <<>>

\* lines 87-108; `address` is not used by the function
interpret_value(value, address) ==
    <<Interp("uint16", value, 1)>> \o InterpretInt16(value)
        \o InterpretTemp(value) \o InterpretPct(value)

(***************************************************************************)
(* ew1_reader.py: RegisterDefinition and the register sets polled          *)
(* (description and unit take no part in any computation and are left out) *)
(***************************************************************************)
RegisterDefinition(address, name, register_type, count, data_type, scale) ==
    [address |-> address, name |-> name, register_type |-> register_type,
     count |-> count, data_type |-> data_type, scale |-> scale]

\* register definitions a configuration may hold: every bank, every data
\* type, a count too small for its type, an unknown bank, an unknown data
\* type, and two definitions that share the name "temp"
Catalog ==
    << RegisterDefinition(11, "temp",   "input",    1, "int16",   1),
       RegisterDefinition(10, "temp",   "holding",  1, "int16",   1),
       RegisterDefinition(5,  "sensor", "input",    1, "uint16",  10),
       RegisterDefinition(0,  "relay",  "coil",     1, "uint16",  10),
       RegisterDefinition(20, "power",  "holding",  2, "uint32",  10),
       RegisterDefinition(22, "short",  "holding",  1, "uint32",  10),
       RegisterDefinition(30, "energy", "input",    2, "int32",   1),
       RegisterDefinition(7,  "odd",    "bogus",    1, "uint16",  10),
       RegisterDefinition(40, "flow",   "holding",  2, "float32", 10),
       RegisterDefinition(1,  "door",   "discrete", 1, "uint16",  10),
       RegisterDefinition(50, "mode",   "holding",  1, "bcd",     10) >>

\* a register set is a run of at most MaxRegs consecutive catalog entries
MaxRegs == 2

RegisterSets ==
    { SubSeq(Catalog, w[1], w[1] + w[2] - 1) :
        w \in { v \in (1 .. Len(Catalog)) \X (1 .. MaxRegs) :
                  v[1] + v[2] - 1 <= Len(Catalog) } }

\* the reader's unit_id, at its default
UnitId == 1

(***************************************************************************)
(* Python dict, insertion-ordered: a list of [k, v] entries                *)
(***************************************************************************)
DictHas(d, k) == \E i \in 1 .. Len(d) : d[i].k = k

DictGet(d, k) == d[CHOOSE i \in 1 .. Len(d) : d[i].k = k].v

DictSet(d, k, v) ==
    IF DictHas(d, k)
    THEN [i \in 1 .. Len(d) |-> IF d[i].k = k THEN [k |-> k, v |-> v] ELSE d[i]]
    ELSE Append(d, [k |-> k, v |-> v])

DictKeys(d) == [i \in 1 .. Len(d) |-> d[i].k]

(***************************************************************************)
(* ew1_reader.py: EW1Reader                                                *)
(***************************************************************************)
\* variant: the decoded value is returned as it is (scale 1.0)
ApplyScale_Unscaled(raw, scale) ==
    IF raw.kind = "int"
    THEN LET low == raw.l * 10
         IN  Val("tenths", raw.h * 10 + (low \div WordBase), low % WordBase, scale)
    ELSE Val("f32", raw.h, raw.l, 10)

\* line 145: raw_value * reg.scale
ApplyScale(raw, scale) ==
    IF raw.kind = "int"
    THEN LET low == raw.l * scale
         IN  Val("tenths", raw.h * scale + (low \div WordBase), low % WordBase, scale)
    ELSE Val("f32", raw.h, raw.l, scale)

\* lines 77-84: connect() builds a new client, keeps it whatever connect()
\* on it returns, and returns that result `ok`; a client held before is
\* dropped as it is
connect(ok) ==
    /\ r_client' = "client"
    /\ cli' = NewClient(ok)
    /\ sessions' = sessions + (IF ok THEN 1 ELSE 0)

\* variant: the client is closed but still held
disconnect_KeepsClient ==
    IF r_client # "None"
    THEN /\ cli' = [connected |-> FALSE, closes |-> cli.closes + 1]
         /\ sessions' = sessions - (IF cli.connected THEN 1 ELSE 0)
         /\ r_client' = r_client
    ELSE UNCHANGED <<r_client, cli, sessions>>

\* lines 86-90
disconnect ==
    IF r_client # "None"
    THEN /\ cli' = [connected |-> FALSE, closes |-> cli.closes + 1]
         /\ sessions' = sessions - (IF cli.connected THEN 1 ELSE 0)
         /\ r_client' = "None"
    ELSE UNCHANGED <<r_client, cli, sessions>>

\* the calls disconnect() makes on the transport
DisconnectCalls == IF r_client # "None" THEN <<CloseCall>> ELSE <<>>

\* lines 113-136: does _read_register get as far as a transport read?
IssuesRead(reg) == r_client # "None" /\ reg.register_type \in BankKinds

\* what the transport may answer to the read _read_register issues for reg;
\* a client whose connect() failed has no session, and its reads fail
OutcomesFor(reg) ==
    IF ~IssuesRead(reg) THEN {NoResult}
    ELSE IF cli.connected THEN ReadOutcomes(reg.register_type, reg.count)
    ELSE Failures

\* variant: only ModbusException is caught
_read_register_NarrowExcept(reg, out) ==
    IF r_client = "None" THEN Raise("RuntimeError")
    ELSE IF reg.register_type \notin BankKinds THEN NoneVal
    ELSE IF out.kind = "ModbusException" THEN NoneVal
    ELSE IF out.kind = "Exception" THEN Raise("Exception")
    ELSE IF out.kind = "error" THEN NoneVal
    ELSE LET raw_value == _convert_raw_value(out.registers, reg.data_type)
         IN  IF raw_value.kind = "IndexError" THEN Raise("Exception")
             ELSE ApplyScale(raw_value, reg.scale)

\* lines 103-152: the value returned, or the exception raised, when the
\* transport answers `out`
_read_register(reg, out) ==
    IF r_client = "None" THEN Raise("RuntimeError")
    ELSE IF reg.register_type \notin BankKinds THEN NoneVal
    ELSE IF out.kind = "ModbusException" THEN NoneVal
    ELSE IF out.kind = "Exception" THEN NoneVal
    ELSE IF out.kind = "error" THEN NoneVal
    ELSE LET raw_value == _convert_raw_value(out.registers, reg.data_type)
         IN  IF raw_value.kind = "IndexError" THEN NoneVal
             ELSE ApplyScale(raw_value, reg.scale)

\* variant: a read that fails is issued a second time
ReadCallsOf_Retry(reg, out) ==
    IF IssuesRead(reg)
    THEN LET call == Call(ReadFn(reg.register_type), reg.address, reg.count, UnitId, out)
         IN  IF out.kind = "ok" THEN <<call>> ELSE <<call, call>>
    ELSE <<>>

\* the transport call _read_register makes for reg, if any
ReadCallsOf(reg, out) ==
    IF IssuesRead(reg)
    THEN << Call(ReadFn(reg.register_type), reg.address, reg.count, UnitId, out) >>
    ELSE <<>>

Polled(raised, data, calls) == [raised |-> raised, data |-> data, calls |-> calls]

\* lines 202-206: the loop from register i on; outs[i] is the transport's
\* answer for register i
RECURSIVE ReadAllFrom(_, _, _)
ReadAllFrom(i, outs, acc) ==
    IF i > Len(registers) THEN acc
    ELSE LET reg == registers[i]
             value == _read_register(reg, outs[i])
             calls == acc.calls \o ReadCallsOf(reg, outs[i])
         IN  IF IsRaise(value) THEN Polled(value.kind, <<>>, calls)
             ELSE ReadAllFrom(i + 1, outs,
                              Polled("", DictSet(acc.data, reg.name, value), calls))

\* lines 195-206
read_all_registers(outs) == ReadAllFrom(1, outs, Polled("", <<>>, <<>>))

\* one transport answer per register of the set
RECURSIVE OutcomeLists(_)
OutcomeLists(i) ==
    IF i > Len(registers) THEN {<<>>}
    ELSE { <<out>> \o rest : out \in OutcomesFor(registers[i]), rest \in OutcomeLists(i + 1) }

RegisterNames == { registers[i].name : i \in 1 .. Len(registers) }

\* variant: a name that is not configured falls back on the first definition
FindRegister_FirstIfAbsent(name) ==
    IF name \in RegisterNames
    THEN CHOOSE i \in 1 .. Len(registers) :
            /\ registers[i].name = name
            /\ \A j \in 1 .. i - 1 : registers[j].name # name
    ELSE 1

\* lines 190-192: the first definition with this name, 0 if there is none
FindRegister(name) ==
    IF name \in RegisterNames
    THEN CHOOSE i \in 1 .. Len(registers) :
            /\ registers[i].name = name
            /\ \A j \in 1 .. i - 1 : registers[j].name # name
    ELSE 0

(***************************************************************************)
(* A program that uses the reader as the tests and the entry points do:    *)
(* connect / disconnect / read_register / read_all_registers called        *)
(* directly, and a with-block whose body polls at most once and may be     *)
(* left by an exception (KeyboardInterrupt in the dry run of logger.py,    *)
(* lines 176-186, and in ew1_reader.py, lines 266-278).                    *)
(***************************************************************************)
\* connect() may be called while a session is open, which leaves that
\* session open for good; at most MaxSessions sessions are opened at a time
MaxSessions == 2

ReaderInit ==
    /\ DecodeIdle
    /\ ScanIdle
    /\ MainIdle
    /\ InterpretIdle
    /\ ConfigIdle
    /\ registers \in RegisterSets
    /\ r_client = "None"
    /\ cli = NewClient(FALSE)
    /\ sessions = 0
    /\ pc = "idle"
    /\ last = NoCall
    /\ trace = <<>>
    /\ sink = EmptySink
    /\ cycles = 0

\* the position after a poll: the body of a with-block polls once
AfterPoll == IF pc = "with" THEN "with_polled" ELSE pc

CallConnect ==
    /\ pc = "idle"
    /\ sessions < MaxSessions
    /\ \E ok \in BOOLEAN :
          /\ connect(ok)
          /\ trace' = <<ConnectCall(ok)>>
          /\ last' = Ret("connect", "", "", NoneVal, <<>>, ok)
    /\ UNCHANGED <<registers, pc>>
    /\ UNCHANGED <<decVars, scanVars, logVars, mainVars, intVars, configVars>>

CallDisconnect ==
    /\ pc = "idle"
    /\ disconnect
    /\ trace' = DisconnectCalls
    /\ last' = Ret("disconnect", "", "", NoneVal, <<>>, FALSE)
    /\ UNCHANGED <<registers, pc>>
    /\ UNCHANGED <<decVars, scanVars, logVars, mainVars, intVars, configVars>>

\* lines 180-193: read_register(name)
CallReadRegister ==
    /\ pc \in {"idle", "with"}
    /\ \E name \in RegisterNames \cup {"nonexistent"} :
          LET i == FindRegister(name)
          IN  IF i = 0
              THEN /\ last' = Ret("read_register", name, "", NoneVal, <<>>, FALSE)
                   /\ trace' = (IF pc = "with" THEN trace ELSE <<>>)
              ELSE \E out \in OutcomesFor(registers[i]) :
                      LET value == _read_register(registers[i], out)
                          calls == ReadCallsOf(registers[i], out)
                      IN  /\ last' = (IF IsRaise(value)
                                      THEN Ret("read_register", name, value.kind, NoneVal, <<>>, FALSE)
                                      ELSE Ret("read_register", name, "", value, <<>>, FALSE))
                          /\ trace' = (IF pc = "with" THEN trace \o calls ELSE calls)
    /\ pc' = AfterPoll
    /\ UNCHANGED <<registers, r_client, cli, sessions>>
    /\ UNCHANGED <<decVars, scanVars, logVars, mainVars, intVars, configVars>>

\* lines 195-206: read_all_registers()
CallReadAll ==
    /\ pc \in {"idle", "with"}
    /\ \E outs \in OutcomeLists(1) :
          LET polled == read_all_registers(outs)
          IN  /\ last' = Ret("read_all_registers", "", polled.raised, NoneVal, polled.data, FALSE)
              /\ trace' = (IF pc = "with" THEN trace \o polled.calls ELSE polled.calls)
    /\ pc' = AfterPoll
    /\ UNCHANGED <<registers, r_client, cli, sessions>>
    /\ UNCHANGED <<decVars, scanVars, logVars, mainVars, intVars, configVars>>

\* variant: a failed connect() is not reported
WithEnter_NoRaise ==
    /\ pc = "idle"
    /\ sessions < MaxSessions
    /\ \E ok \in BOOLEAN :
          /\ connect(ok)
          /\ trace' = <<ConnectCall(ok)>>
          /\ pc' = "with"
          /\ last' = Ret("__enter__", "", "", NoneVal, <<>>, ok)
    /\ UNCHANGED registers
    /\ UNCHANGED <<decVars, scanVars, logVars, mainVars, intVars, configVars>>

\* lines 92-96: __enter__
WithEnter ==
    /\ pc = "idle"
    /\ sessions < MaxSessions
    /\ \E ok \in BOOLEAN :
          /\ connect(ok)
          /\ trace' = <<ConnectCall(ok)>>
          /\ pc' = (IF ok THEN "with" ELSE "idle")
          /\ last' = Ret("__enter__", "", IF ok THEN "" ELSE "ConnectionError",
                         NoneVal, <<>>, ok)
    /\ UNCHANGED registers
    /\ UNCHANGED <<decVars, scanVars, logVars, mainVars, intVars, configVars>>

\* variant: the handle is released only when the body ends normally
WithExit_OnlyOnSuccess ==
    /\ pc \in {"with", "with_polled"}
    /\ \E exc \in {"", "Exception"} :
          LET exc_type == IF last.raised # "" THEN last.raised ELSE exc
          IN  /\ IF exc_type = "" THEN disconnect
                 ELSE UNCHANGED <<r_client, cli, sessions>>
              /\ trace' = (IF exc_type = "" THEN trace \o DisconnectCalls ELSE trace)
              /\ last' = Ret("with", "", exc_type, NoneVal, last.data, FALSE)
    /\ pc' = "idle"
    /\ UNCHANGED registers
    /\ UNCHANGED <<decVars, scanVars, logVars, mainVars, intVars, configVars>>

\* lines 98-101: __exit__, reached when the body ends or an exception
\* leaves it; it returns False, so the exception goes on to the caller
WithExit ==
    /\ pc \in {"with", "with_polled"}
    /\ \E exc \in {"", "Exception"} :
          LET exc_type == IF last.raised # "" THEN last.raised ELSE exc
          IN  /\ disconnect
              /\ trace' = trace \o DisconnectCalls
              /\ last' = Ret("with", "", exc_type, NoneVal, last.data, FALSE)
    /\ pc' = "idle"
    /\ UNCHANGED registers
    /\ UNCHANGED <<decVars, scanVars, logVars, mainVars, intVars, configVars>>

ReaderNext ==
    \/ CallConnect
    \/ CallDisconnect
    \/ CallReadRegister
    \/ CallReadAll
    \/ WithEnter
    \/ WithExit

SpecReader == ReaderInit /\ [][ReaderNext]_vars

\* either program is run: the scanner on a range, or a program on a reader
BanksInit == ScanInit \/ ReaderInit

BanksNext == ScanNext \/ ReaderNext

SpecBanks == BanksInit /\ [][BanksNext]_vars

(***************************************************************************)
(* write_to_sheets.py: SheetsWriter.write_row                              *)
(***************************************************************************)
TimestampCell == Val("timestamp", 0, 0, 0)

EmptyCell == Val("empty", 0, 0, 0)

\* line 124: f"{value:.2f}"; a number of tenths is rendered exactly, as
\* hundredths, and a scaled float32 as its two-decimal rendering
FormatCell(value) ==
    IF value.kind = "tenths"
    THEN LET low == value.l * 10
         IN  Val("text", value.h * 10 + (low \div WordBase), low % WordBase, 0)
    ELSE Val("text_f32", value.h, value.l, value.by)

\* lines 119-126: the timestamp, then one cell per column
RowOf(data, columns) ==
    <<TimestampCell>> \o
    [ i \in 1 .. Len(columns) |->
        IF DictHas(data, columns[i]) /\ DictGet(data, columns[i]) # NoneVal
        THEN FormatCell(DictGet(data, columns[i]))
        ELSE EmptyCell ]

WriteRowCall(ok) ==
    Call("write_row", 0, 0, 0, Result(IF ok THEN "ok" ELSE "Exception", <<>>, <<>>))

(***************************************************************************)
(* logger.py: log_once, called cycle after cycle by main                   *)
(***************************************************************************)
\* logging cycles main runs
MaxCycles == 2

\* logger.py line 170
columns == [ i \in 1 .. Len(registers) |-> registers[i].name ]

LoggerInit ==
    /\ DecodeIdle
    /\ ScanIdle
    /\ MainIdle
    /\ InterpretIdle
    /\ ConfigIdle
    /\ registers \in RegisterSets
    /\ r_client = "None"
    /\ cli = NewClient(FALSE)
    /\ sessions = 0
    /\ pc = "idle"
    /\ last = NoCall
    /\ trace = <<>>
    /\ sink = EmptySink
    /\ cycles = 0

\* variant: __enter__ does not report a failed connect()
LogEnter_NoRaise ==
    /\ pc = "idle"
    /\ m_pc \in {"off", "call"}
    /\ cycles < MaxCycles
    /\ cycles' = cycles + 1
    /\ \E ok \in BOOLEAN :
          /\ connect(ok)
          /\ trace' = <<ConnectCall(ok)>>
          /\ pc' = "log_with"
          /\ last' = Ret("__enter__", "", "", NoneVal, <<>>, ok)
    /\ m_pc' = (IF m_pc = "call" THEN "log_once" ELSE m_pc)
    /\ UNCHANGED <<registers, sink, running, interval, waited>>
    /\ UNCHANGED <<decVars, scanVars, intVars, configVars>>

\* lines 79-82 and 106-108: log_once is called, by a caller of its own
\* (m_pc "off") or by the interval loop at line 212 (m_pc "call"), and
\* `with reader:` enters; a ConnectionError from __enter__ is caught and
\* log_once returns False
LogEnter ==
    /\ pc = "idle"
    /\ m_pc \in {"off", "call"}
    /\ cycles < MaxCycles
    /\ cycles' = cycles + 1
    /\ \E ok \in BOOLEAN :
          /\ connect(ok)
          /\ trace' = <<ConnectCall(ok)>>
          /\ pc' = (IF ok THEN "log_with" ELSE "idle")
          /\ last' = (IF ok THEN Ret("__enter__", "", "", NoneVal, <<>>, ok)
                      ELSE Ret("log_once", "", "", NoneVal, <<>>, FALSE))
    /\ m_pc' = (IF m_pc = "call" THEN "log_once" ELSE m_pc)
    /\ UNCHANGED <<registers, sink, running, interval, waited>>
    /\ UNCHANGED <<decVars, scanVars, intVars, configVars>>

\* variant: the row is written inside the with-block, right after the poll
LogPoll_WritesInBlock ==
    /\ pc = "log_with"
    /\ \E outs \in OutcomeLists(1) :
          LET polled == read_all_registers(outs)
          IN  /\ last' = Ret("read_all_registers", "", polled.raised, NoneVal, polled.data, FALSE)
              /\ trace' = Append(trace \o polled.calls, WriteRowCall(TRUE))
              /\ sink' = [rows |-> sink.rows + 1, row |-> RowOf(polled.data, columns)]
    /\ pc' = "log_polled"
    /\ UNCHANGED <<registers, r_client, cli, sessions, cycles>>
    /\ UNCHANGED <<decVars, scanVars, mainVars, intVars, configVars>>

\* line 83: data = reader.read_all_registers()
LogPoll ==
    /\ pc = "log_with"
    /\ \E outs \in OutcomeLists(1) :
          LET polled == read_all_registers(outs)
          IN  /\ last' = Ret("read_all_registers", "", polled.raised, NoneVal, polled.data, FALSE)
              /\ trace' = trace \o polled.calls
    /\ pc' = "log_polled"
    /\ UNCHANGED <<registers, r_client, cli, sessions, sink, cycles>>
    /\ UNCHANGED <<decVars, scanVars, mainVars, intVars, configVars>>

\* variant: the with-block is left without a disconnect
LogExit_KeepsSession ==
    /\ pc = "log_polled"
    /\ pc' = (IF last.raised = "" THEN "log_write" ELSE "idle")
    /\ last' = (IF last.raised = "" THEN last
                ELSE Ret("log_once", "", "", NoneVal, <<>>, FALSE))
    /\ UNCHANGED <<registers, r_client, cli, sessions, trace, sink, cycles>>
    /\ UNCHANGED <<decVars, scanVars, mainVars, intVars, configVars>>

\* the end of the with-block: __exit__ disconnects; an exception raised in
\* the block goes on to lines 109-111 and log_once returns False
LogExit ==
    /\ pc = "log_polled"
    /\ disconnect
    /\ trace' = trace \o DisconnectCalls
    /\ pc' = (IF last.raised = "" THEN "log_write" ELSE "idle")
    /\ last' = (IF last.raised = "" THEN last
                ELSE Ret("log_once", "", "", NoneVal, <<>>, FALSE))
    /\ UNCHANGED <<registers, sink, cycles>>
    /\ UNCHANGED <<decVars, scanVars, mainVars, intVars, configVars>>

\* variant: an exception of write_row leaves log_once
LogWrite_Propagates ==
    /\ pc = "log_write"
    /\ \E ok \in BOOLEAN :
          /\ sink' = (IF ok THEN [rows |-> sink.rows + 1, row |-> RowOf(last.data, columns)]
                      ELSE sink)
          /\ trace' = Append(trace, WriteRowCall(ok))
          /\ last' = Ret("log_once", "", IF ok THEN "" ELSE "Exception",
                         NoneVal, last.data, ok)
    /\ pc' = "idle"
    /\ UNCHANGED <<registers, r_client, cli, sessions, cycles>>
    /\ UNCHANGED <<decVars, scanVars, mainVars, intVars, configVars>>

\* variant: a cycle with a failed register is given up before the write
LogWrite_SkipsOnNone ==
    /\ pc = "log_write"
    /\ \E ok \in BOOLEAN :
          LET complete == \A n \in 1 .. Len(last.data) : last.data[n].v # NoneVal
              written == ok /\ complete
          IN  /\ sink' = (IF written
                          THEN [rows |-> sink.rows + 1, row |-> RowOf(last.data, columns)]
                          ELSE sink)
              /\ trace' = (IF complete THEN Append(trace, WriteRowCall(ok)) ELSE trace)
              /\ last' = Ret("log_once", "", "", NoneVal, last.data, written)
    /\ pc' = "idle"
    /\ UNCHANGED <<registers, r_client, cli, sessions, cycles>>
    /\ UNCHANGED <<decVars, scanVars, mainVars, intVars, configVars>>

\* lines 99-111: writer.write_row(data, columns=columns), which appends the
\* row or raises; log_once returns True or False
LogWrite ==
    /\ pc = "log_write"
    /\ \E ok \in BOOLEAN :
          /\ sink' = (IF ok THEN [rows |-> sink.rows + 1, row |-> RowOf(last.data, columns)]
                      ELSE sink)
          /\ trace' = Append(trace, WriteRowCall(ok))
          /\ last' = Ret("log_once", "", "", NoneVal, last.data, ok)
    /\ pc' = "idle"
    /\ UNCHANGED <<registers, r_client, cli, sessions, cycles>>
    /\ UNCHANGED <<decVars, scanVars, mainVars, intVars, configVars>>

Next == LogEnter \/ LogPoll \/ LogExit \/ LogWrite

Spec == LoggerInit /\ [][Next]_vars

(***************************************************************************)
(* logger.py: main in interval mode (lines 202-219) and signal_handler.    *)
(* The handlers are installed before the loop; a signal may arrive at any  *)
(* point of it, a sleep included, which then runs to its end.              *)
(***************************************************************************)
\* args.interval is 1 .. MaxInterval seconds
MaxInterval == 3

\* the loop is run on the register sets of at most MaxMainRegs definitions
MaxMainRegs == 1

MainInit ==
    /\ DecodeIdle
    /\ ScanIdle
    /\ InterpretIdle
    /\ ConfigIdle
    /\ registers \in { rs \in RegisterSets : Len(rs) <= MaxMainRegs }
    /\ r_client = "None"
    /\ cli = NewClient(FALSE)
    /\ sessions = 0
    /\ pc = "idle"
    /\ last = NoCall
    /\ trace = <<>>
    /\ sink = EmptySink
    /\ cycles = 0
    /\ running = TRUE
    /\ m_pc = "loop"
    /\ interval \in 1 .. MaxInterval
    /\ waited = 0

\* lines 29-33: SIGINT or SIGTERM is delivered
signal_handler ==
    /\ m_pc \in {"loop", "call", "log_once", "wait", "sleep"}
    /\ running' = FALSE
    /\ UNCHANGED <<m_pc, interval, waited>>
    /\ UNCHANGED <<decVars, scanVars, readerVars, logVars, intVars, configVars>>

\* variant: the loop does not look at the flag
MainLoop_IgnoresFlag ==
    /\ m_pc = "loop"
    /\ cycles < MaxCycles
    /\ m_pc' = "call"
    /\ UNCHANGED <<running, interval, waited>>
    /\ UNCHANGED <<decVars, scanVars, readerVars, logVars, intVars, configVars>>

\* line 211: `while running:`; the body starts with the call of log_once
MainLoop ==
    /\ m_pc = "loop"
    /\ IF running
       THEN cycles < MaxCycles /\ m_pc' = "call"
       ELSE m_pc' = "stopped"
    /\ UNCHANGED <<running, interval, waited>>
    /\ UNCHANGED <<decVars, scanVars, readerVars, logVars, intVars, configVars>>

\* line 215: log_once has returned; wait_until = time.time() + args.interval
MainReturn ==
    /\ m_pc = "log_once"
    /\ pc = "idle"
    /\ m_pc' = "wait"
    /\ waited' = 0
    /\ UNCHANGED <<running, interval>>
    /\ UNCHANGED <<decVars, scanVars, readerVars, logVars, intVars, configVars>>

\* variant: the wait does not look at the flag
MainWaitTest_Uninterruptible ==
    /\ m_pc = "wait"
    /\ m_pc' = (IF waited < interval THEN "sleep" ELSE "loop")
    /\ UNCHANGED <<running, interval, waited>>
    /\ UNCHANGED <<decVars, scanVars, readerVars, logVars, intVars, configVars>>

\* line 216: `while running and time.time() < wait_until:`
MainWaitTest ==
    /\ m_pc = "wait"
    /\ m_pc' = (IF running /\ waited < interval THEN "sleep" ELSE "loop")
    /\ UNCHANGED <<running, interval, waited>>
    /\ UNCHANGED <<decVars, scanVars, readerVars, logVars, intVars, configVars>>

\* line 217: time.sleep(1) runs to its end
MainSleep ==
    /\ m_pc = "sleep"
    /\ waited' = waited + 1
    /\ m_pc' = "wait"
    /\ UNCHANGED <<running, interval>>
    /\ UNCHANGED <<decVars, scanVars, readerVars, logVars, intVars, configVars>>

MainNext ==
    \/ signal_handler
    \/ MainLoop
    \/ LogEnter
    \/ LogPoll
    \/ LogExit
    \/ LogWrite
    \/ MainReturn
    \/ MainWaitTest
    \/ MainSleep

SpecMain == MainInit /\ [][MainNext]_vars

\* the steps of the main thread, which runs on as long as it has a step to
\* take: the calls of a cycle return and a sleep ends.  No signal need ever
\* be delivered.
MainStep ==
    \/ MainLoop
    \/ LogEnter
    \/ LogPoll
    \/ LogExit
    \/ LogWrite
    \/ MainReturn
    \/ MainWaitTest
    \/ MainSleep

\* the loop over one polled register: how many are polled takes no part in
\* the control flow of the loop
MainFairInit == MainInit /\ Len(registers) = 1

SpecMainFair == MainFairInit /\ [][MainNext]_vars /\ WF_vars(MainStep)

(***************************************************************************)
(* The decoder on its own: one call of _convert_raw_value on any word list *)
(***************************************************************************)
\* single-precision values: both signs; zero, subnormal, smallest and
\* largest normal exponents and those around 1.0; fractions at both ends,
\* the middle, and that of 3.14 rounded to single precision (0x48F5C3)
F32Exponents == {0, 1, 126, 127, 128, 254}

F32Fractions == {0, 1, 4194304, 4781507, 8388607}

F32Samples ==
    { F32Val(sign * 256 + exponent, fraction) :
        sign \in 0 .. 1, exponent \in F32Exponents, fraction \in F32Fractions }

DecodeInputs ==
    {<<>>} \cup { <<w>> : w \in AllWords }
           \cup { <<hi, lo>> : hi \in PairWords, lo \in PairWords }
           \cup { UnpackHH(PackFloat(x)) : x \in F32Samples }

DecodeInit ==
    /\ ScanIdle
    /\ ReaderIdle
    /\ MainIdle
    /\ InterpretIdle
    /\ ConfigIdle
    /\ DecodeIdle

DecodeCall ==
    /\ d_calls = 0
    /\ \E regs \in DecodeInputs, data_type \in AnyDataType :
          /\ d_regs' = regs
          /\ d_type' = data_type
          /\ d_out' = _convert_raw_value(regs, data_type)
    /\ d_calls' = 1
    /\ UNCHANGED <<scanVars, readerVars, logVars, mainVars, intVars, configVars>>

DecodeNext == DecodeCall

SpecDecode == DecodeInit /\ [][DecodeNext]_vars

(***************************************************************************)
(* interpret_value on its own: one call on any 16-bit word, as the scanner *)
(* report makes for each register found (scan_registers.py, lines 178-179) *)
(***************************************************************************)
InterpretInit ==
    /\ DecodeIdle
    /\ ScanIdle
    /\ ReaderIdle
    /\ MainIdle
    /\ InterpretIdle
    /\ ConfigIdle

InterpretCall ==
    /\ i_calls = 0
    /\ \E value \in AllWords, address \in 0 .. MaxAddr :
          /\ i_value' = value
          /\ i_out' = interpret_value(value, address)
    /\ i_calls' = 1
    /\ UNCHANGED <<decVars, scanVars, readerVars, logVars, mainVars, configVars>>

InterpretNext == InterpretCall

SpecInterpret == InterpretInit /\ [][InterpretNext]_vars

(***************************************************************************)
(* logger.py, create_reader_from_config: the reader a configuration builds *)
(* A dict is a function from the keys it holds to their values.            *)
(***************************************************************************)
\* dict.get(key, default)
Get(d, key, default) == IF key \in DOMAIN d THEN d[key] ELSE default

\* ew1_reader.py, lines 38-46 (the scale 0.1 is 1 tenth)
DEFAULT_REGISTERS ==
    << RegisterDefinition(0, "temp_1", "input", 1, "int16", 1),
       RegisterDefinition(1, "temp_2", "input", 1, "int16", 1),
       RegisterDefinition(2, "temp_3", "input", 1, "int16", 1),
       RegisterDefinition(3, "temp_4", "input", 1, "int16", 1),
       RegisterDefinition(4, "temp_5", "input", 1, "int16", 1),
       RegisterDefinition(5, "temp_6", "input", 1, "int16", 1) >>

\* a reader that polls whatever list it was given, an empty one included
EW1Reader_AsGiven(unit_id, regs) ==
    [unit_id |-> unit_id, registers |-> regs]

\* EW1Reader.__init__, lines 70-75: `registers or DEFAULT_REGISTERS` takes
\* the defaults for None and for the empty list, both falsy
EW1Reader(unit_id, regs) ==
    [unit_id |-> unit_id,
     registers |-> IF regs = <<>> THEN DEFAULT_REGISTERS ELSE regs]

\* lines 49-60: one RegisterDefinition per entry, absent keys at their
\* defaults (the scale 1.0 is 10 tenths)
DefinitionOf(reg_config) ==
    RegisterDefinition(reg_config["address"],
                       reg_config["name"],
                       Get(reg_config, "register_type", "holding"),
                       Get(reg_config, "count", 1),
                       Get(reg_config, "data_type", "uint16"),
                       Get(reg_config, "scale", 10))

\* lines 42-67
create_reader_from_config(config) ==
    LET ew1_config == Get(config, "ew1", EmptyDict)
        entries == Get(config, "registers", <<>>)
        regs == [i \in 1 .. Len(entries) |-> DefinitionOf(entries[i])]
    IN  EW1Reader(Get(ew1_config, "unit_id", 1), regs)

\* entries of the "registers" list: every catalog definition written out in
\* full, and with only the two keys the code requires
FullEntry(reg) ==
    [address |-> reg.address, name |-> reg.name,
     register_type |-> reg.register_type, count |-> reg.count,
     data_type |-> reg.data_type, scale |-> reg.scale]

MinimalEntry(reg) == [address |-> reg.address, name |-> reg.name]

ConfigEntries ==
    { FullEntry(Catalog[i]) : i \in 1 .. Len(Catalog) }
        \cup { MinimalEntry(Catalog[i]) : i \in 1 .. Len(Catalog) }

\* a "registers" list holds at most MaxConfigRegs entries, in any order
MaxConfigRegs == 2

ConfigLists == UNION { [1 .. n -> ConfigEntries] : n \in 0 .. MaxConfigRegs }

\* the "ew1" section, with and without a unit_id
Ew1Sections == { EmptyDict, [unit_id |-> 5] }

\* configurations: each of the keys "ew1" and "registers" present or absent
Configs ==
    { [k \in keys |-> IF k = "ew1" THEN ew1 ELSE list] :
        keys \in SUBSET {"ew1", "registers"},
        ew1 \in Ew1Sections, list \in ConfigLists }

ConfigInit ==
    /\ DecodeIdle
    /\ ScanIdle
    /\ ReaderIdle
    /\ MainIdle
    /\ InterpretIdle
    /\ ConfigIdle

CreateReader ==
    /\ c_calls = 0
    /\ \E config \in Configs :
          /\ c_config' = config
          /\ c_reader' = create_reader_from_config(config)
    /\ c_calls' = 1
    /\ UNCHANGED <<decVars, scanVars, readerVars, logVars, mainVars, intVars>>

ConfigNext == CreateReader

SpecConfig == ConfigInit /\ [][ConfigNext]_vars

(***************************************************************************)
(* Properties of the decoder                                               *)
(***************************************************************************)
Decoded(data_type, n) == d_calls = 1 /\ d_type = data_type /\ Len(d_regs) >= n

\* C2: for every 16-bit word w, decoding [w] as INT16 gives w when
\* w < 0x8000 and w - 65536 otherwise, a value in -32768..32767.
C2_Int16TwosComplement ==
    Decoded("int16", 1) =>
        LET w == d_regs[1]
        IN  /\ d_out.kind = "int"
            /\ ToInt(d_out) = (IF w < 32768 THEN w ELSE w - 65536)
            /\ ToInt(d_out) \in -32768 .. 32767

C2_Witness ==
    /\ Decoded("int16", 1)
    /\ d_regs = <<65526>>
    /\ d_out.kind = "int"
    /\ ToInt(d_out) = -10

\* C3: for every word pair (hi, lo), decoding [hi, lo] as INT32 gives
\* raw = hi * 65536 + lo when raw < 0x80000000 (that is, hi < 0x8000) and
\* raw - 0x100000000 otherwise (limbs hi - 65536 and lo); the result lies in
\* -2^31 .. 2^31 - 1 and is negative exactly when hi >= 0x8000.
C3_Int32TwosComplement ==
    Decoded("int32", 2) =>
        LET hi == d_regs[1]
            lo == d_regs[2]
        IN  /\ d_out.kind = "int"
            /\ d_out.l = lo
            /\ d_out.h = (IF hi < 32768 THEN hi ELSE hi - 65536)
            /\ d_out.h \in -32768 .. 32767
            /\ d_out.l \in 0 .. 65535
            /\ (d_out.h < 0) <=> (hi >= 32768)
            /\ ToInt(d_out) = (IF hi < 32768 THEN hi * 65536 + lo
                               ELSE (hi - 65536) * 65536 + lo)
            /\ (ToInt(d_out) < 0) <=> (hi >= 32768)

C3_Witness ==
    /\ Decoded("int32", 2)
    /\ d_regs = <<65535, 65535>>
    /\ d_out.kind = "int"
    /\ ToInt(d_out) = -1

\* C4: for every word pair (hi, lo), decoding [hi, lo] as UINT32 gives
\* hi * 65536 + lo, most significant word first, a value in 0 .. 2^32 - 1.
C4_Uint32BigEndian ==
    Decoded("uint32", 2) =>
        LET hi == d_regs[1]
            lo == d_regs[2]
        IN  /\ d_out.kind = "int"
            /\ d_out.h = hi
            /\ d_out.l = lo
            /\ d_out.h \in 0 .. 65535
            /\ d_out.l \in 0 .. 65535

C4_Witness ==
    /\ Decoded("uint32", 2)
    /\ d_regs = <<1, 2>>
    /\ d_out.kind = "int"
    /\ ToInt(d_out) = 65538

\* C13: decoding with a data type outside uint16, int16, uint32, int32 and
\* float32 fails explicitly: the outcome is an error, never a number taken
\* from the first word.
C13_UnknownEncodingFails ==
    (Decoded(d_type, 1) /\ d_type \notin DataTypes) =>
        /\ d_out.kind \notin {"int", "f32"}
        /\ d_out # ConvertUint16(d_regs)

\* a and x are the same finite number (+0.0 and -0.0 are the same number)
SameNumber(a, x) ==
    /\ a.kind = "f32"
    /\ a.h % 256 # 255
    /\ x.h % 256 # 255
    /\ \/ a.h = x.h /\ a.l = x.l
       \/ a.h % 256 = 0 /\ a.l = 0 /\ x.h % 256 = 0 /\ x.l = 0

\* |a - 3.14| < 0.001 for a of exponent 128, the number (2^23 + l) / 2^22
Near314(a) ==
    LET diff == (8388608 + a.l) * 100 - 314 * 4194304
    IN  /\ a.h = 128
        /\ (IF diff < 0 THEN -diff ELSE diff) * 1000 < 4194304 * 100

\* C22: for every finite single-precision x, packing x as a big-endian
\* IEEE-754 single into the word pair (high word, low word) and decoding
\* that pair as float32 returns x itself, which is within 1e-3 of x; the
\* words of 3.14 decode to a number within 1e-3 of 3.14.
C22_Float32RoundTrip ==
    Decoded("float32", 2) =>
        /\ \A x \in F32Samples :
              UnpackHH(PackFloat(x)) = d_regs => SameNumber(d_out, x)
        /\ d_regs = <<16456, 62915>> => Near314(d_out)

C22_Witness ==
    /\ Decoded("float32", 2)
    /\ d_regs = UnpackHH(PackFloat(F32Val(128, 4781507)))
    /\ d_regs = <<16456, 62915>>
    /\ d_out = F32Val(128, 4781507)
    /\ Near314(d_out)

\* C25: _convert_raw_value called with a data type it does not know
\* returns the first register word as a float, the result uint16 gives for
\* the same words, and raises nothing.
C25_UnknownTypeFirstWord ==
    (Decoded(d_type, 1) /\ d_type \notin DataTypes) =>
        /\ d_out.kind = "int"
        /\ ToInt(d_out) = d_regs[1]
        /\ d_out = _convert_raw_value(d_regs, "uint16")

C25_Witness ==
    /\ Decoded("bcd", 2)
    /\ d_regs = <<32768, 1>>
    /\ d_out.kind = "int"
    /\ ToInt(d_out) = 32768

(***************************************************************************)
(* Properties of the scanner                                               *)
(***************************************************************************)
ScanReads == ReadCalls(s_calls)

ScanRange == { a \in 0 .. MaxAddr : s_start <= a /\ a < s_end }

\* what lines 70-73 take from a good result
ScanValueOf(c) ==
    IF s_type \in {"coil", "discrete"} THEN c.out.bits[1] ELSE c.out.registers[1]

\* C5: scan_registers returns exactly the addresses of [start, end) whose
\* single read returned a non-error result, each once, in ascending order,
\* paired with the value read; an address whose read errors or raises is
\* left out and the scan goes on to the next address.
C5_ScanReturnsResponders ==
    s_pc = "returned" =>
        /\ \A i \in 1 .. Len(ScanReads) : \A j \in 1 .. Len(ScanReads) :
              ScanReads[i].address = ScanReads[j].address => i = j
        /\ \A i \in 1 .. Len(ScanReads) :
              /\ ScanReads[i].address \in ScanRange
              /\ ScanReads[i].count = 1
        /\ s_type \in BankKinds =>
              { ScanReads[i].address : i \in 1 .. Len(ScanReads) } = ScanRange
        /\ { s_found[k][1] : k \in 1 .. Len(s_found) }
              = { ScanReads[i].address :
                    i \in { n \in 1 .. Len(ScanReads) : ScanReads[n].out.kind = "ok" } }
        /\ \A k \in 1 .. Len(s_found) - 1 : s_found[k][1] < s_found[k + 1][1]
        /\ \A k \in 1 .. Len(s_found) :
              \E i \in 1 .. Len(ScanReads) :
                  /\ ScanReads[i].address = s_found[k][1]
                  /\ ScanReads[i].out.kind = "ok"
                  /\ s_found[k][2] = ScanValueOf(ScanReads[i])

C5_Witness ==
    /\ s_pc = "returned"
    /\ Len(ScanReads) = 3
    /\ ScanReads[1].out.kind = "Exception"
    /\ ScanReads[2].out.kind = "error"
    /\ ScanReads[3].out.kind = "ok"
    /\ Len(s_found) = 1
    /\ s_found[1][1] = ScanReads[3].address

ScanOpened == Len(s_calls) >= 1 /\ s_calls[1] = ConnectCall(TRUE)

\* C6: after a successful open, scan_registers calls close on the transport
\* exactly once on every exit path, and no read is issued after the close.
C6_ScanClosesOnce ==
    /\ (s_pc = "returned" /\ ScanOpened) => CountCalls(s_calls, "close") = 1
    /\ \A i \in 1 .. Len(s_calls) : s_calls[i].fn = "close" => i = Len(s_calls)

C6_Witness ==
    /\ s_pc = "returned"
    /\ ScanOpened
    /\ Len(ScanReads) >= 2
    /\ \A i \in 1 .. Len(ScanReads) : ScanReads[i].out.kind = "Exception"
    /\ s_found = <<>>
    /\ CountCalls(s_calls, "close") = 1

ScanOpenFailed == Len(s_calls) >= 1 /\ s_calls[1] = ConnectCall(FALSE)

\* C10: when the transport cannot be opened, scan_registers raises
\* ConnectionError before any address is read and produces no result.
C10_ScanConnectionError ==
    ScanOpenFailed =>
        /\ s_pc = "ConnectionError"
        /\ ScanReads = <<>>
        /\ s_found = <<>>

C10_Witness ==
    /\ ScanOpenFailed
    /\ s_pc = "ConnectionError"
    /\ s_type \in BankKinds
    /\ s_start < s_end

\* the interpretations of i_out that carry this label
Listed(label) == SelectSeq(i_out, LAMBDA e : e.label = label)

\* C19: for every uint16 raw value, interpret_value always lists the
\* unsigned 16-bit reading (first, and once), and lists the signed 16-bit
\* reading if and only if it differs from the unsigned one, that is iff
\* raw >= 0x8000, in which case the signed reading is raw - 65536.
C19_InterpretSigned ==
    i_calls = 1 =>
        /\ Len(i_out) >= 1
        /\ i_out[1] = Interp("uint16", i_value, 1)
        /\ Len(Listed("uint16")) = 1
        /\ Len(Listed("int16")) = (IF i_value >= 32768 THEN 1 ELSE 0)
        /\ \A k \in 1 .. Len(Listed("int16")) :
              /\ Listed("int16")[k] = Interp("int16", i_value - 65536, 1)
              /\ Listed("int16")[k].num # i_value
              /\ Listed("int16")[k].num \in -32768 .. -1

C19_Witness ==
    /\ i_calls = 1
    /\ i_value = 65526
    /\ i_out = <<Interp("uint16", 65526, 1), Interp("int16", -10, 1)>>

\* C20: for every uint16 raw value, interpret_value includes the
\* temperature candidate raw / 10 if and only if -50 < raw / 10 < 150, both
\* bounds strict: 250 gives 25.0, 1499 is included, 1500 and 2000 are not.
C20_InterpretTemperature ==
    i_calls = 1 =>
        /\ Len(Listed("temp")) =
              (IF -500 < i_value /\ i_value < 1500 THEN 1 ELSE 0)
        /\ \A k \in 1 .. Len(Listed("temp")) :
              Listed("temp")[k] = Interp("temp", i_value, 10)
        /\ i_value = 250 => Listed("temp") = <<Interp("temp", 250, 10)>>
        /\ i_value = 1499 => Listed("temp") = <<Interp("temp", 1499, 10)>>
        /\ i_value \in {1500, 2000} => Listed("temp") = <<>>

C20_Witness ==
    /\ i_calls = 1
    /\ i_value = 1499
    /\ Listed("temp") = <<Interp("temp", 1499, 10)>>
    /\ Listed("pct") = <<>>

\* C21: for every uint16 raw value, interpret_value includes the percentage
\* candidate raw / 10 if and only if 0 <= raw <= 1000, both bounds
\* inclusive: 0 gives 0.0, 1000 gives exactly 100.0, 1001 gives none.
C21_InterpretPercentage ==
    i_calls = 1 =>
        /\ Len(Listed("pct")) = (IF 0 <= i_value /\ i_value <= 1000 THEN 1 ELSE 0)
        /\ \A k \in 1 .. Len(Listed("pct")) :
              Listed("pct")[k] = Interp("pct", i_value, 10)
        /\ i_value = 0 => Listed("pct") = <<Interp("pct", 0, 10)>>
        /\ i_value = 1000 => Listed("pct") = <<Interp("pct", 1000, 10)>>
        /\ i_value = 1001 => Listed("pct") = <<>>

C21_Witness ==
    /\ i_calls = 1
    /\ i_value = 1000
    /\ Listed("pct") = <<Interp("pct", 1000, 10)>>
    /\ Listed("temp") = <<Interp("temp", 1000, 10)>>

(***************************************************************************)
(* Properties of the reader                                                *)
(***************************************************************************)
PollReads == ReadCalls(trace)

KnownBank(i) == registers[i].register_type \in BankKinds

\* position, among the reads of a poll, of the read for register i
ReadPos(i) == Cardinality({ j \in 1 .. i : KnownBank(j) })

\* words the decoder takes from the result; a data type it does not know
\* is decoded from the first word (ew1_reader.py, line 178)
WordsNeeded(data_type) == IF data_type \in {"uint32", "int32", "float32"} THEN 2 ELSE 1

\* the read for register i could not be made, errored, raised, or returned
\* fewer words than the encoding needs
SpecFailed(i) ==
    \/ ~KnownBank(i)
    \/ PollReads[ReadPos(i)].out.kind # "ok"
    \/ Len(PollReads[ReadPos(i)].out.registers) < WordsNeeded(registers[i].data_type)

LastOfName(i) == \A j \in i + 1 .. Len(registers) : registers[j].name # registers[i].name

NamesUnique == \A i \in 1 .. Len(registers) : LastOfName(i)

PolledAllConnected ==
    /\ last.op = "read_all_registers"
    /\ r_client = "client"
    /\ cli.connected

\* C1: whatever each transport read does (result, error result, exception),
\* read_all_registers on a connected reader returns without raising a map
\* with an entry for every spec name, None for exactly the specs whose read
\* or decode failed and a value for every other spec, and every spec is
\* read, whatever happened to the specs before it.  (The entry of a name is
\* that of the last spec carrying it: in a name-unique set, of every spec.)
C1_PollIsolatesFailures ==
    PolledAllConnected =>
        /\ last.raised = ""
        /\ { last.data[n].k : n \in 1 .. Len(last.data) } = RegisterNames
        /\ Len(PollReads) = Cardinality({ i \in 1 .. Len(registers) : KnownBank(i) })
        /\ \A i \in 1 .. Len(registers) :
              KnownBank(i) =>
                  /\ PollReads[ReadPos(i)].fn = ReadFn(registers[i].register_type)
                  /\ PollReads[ReadPos(i)].address = registers[i].address
        /\ \A i \in 1 .. Len(registers) :
              LastOfName(i) =>
                  ((DictGet(last.data, registers[i].name) = NoneVal) <=> SpecFailed(i))

C1_Witness ==
    /\ PolledAllConnected
    /\ Len(registers) = 2
    /\ NamesUnique
    /\ Len(PollReads) = 2
    /\ PollReads[1].out.kind = "Exception"
    /\ PollReads[2].out.kind = "ok"
    /\ DictGet(last.data, registers[1].name) = NoneVal
    /\ DictGet(last.data, registers[2].name) # NoneVal

\* C7: a polling cycle inside the reader's with-block releases the
\* transport on every exit path (the body completes, a read or decode
\* fails, an exception leaves the body): disconnect closes the handle
\* exactly once and the reader holds no handle afterwards.
C7_WithBlockReleases ==
    last.op = "with" =>
        /\ r_client = "None"
        /\ cli.closes = 1
        /\ ~cli.connected
        /\ CountCalls(trace, "close") = 1
        /\ trace[Len(trace)] = CloseCall

C7_Witness ==
    /\ last.op = "with"
    /\ last.raised = "Exception"
    /\ Len(PollReads) >= 1
    /\ PollReads[1].out.kind = "ModbusException"
    /\ r_client = "None"
    /\ cli.closes = 1

\* the reader polled a configured name, or all names, without a usable
\* handle: never connected, disconnected, or connect() returned False
PolledWithoutSession ==
    /\ \/ last.op = "read_all_registers"
       \/ last.op = "read_register" /\ last.arg \in RegisterNames
    /\ r_client = "None" \/ ~cli.connected

\* C8: a poll on a reader whose transport handle is absent or unusable
\* signals a hard error to the caller before any read is attempted, instead
\* of issuing reads or returning None values.
C8_PollWithoutSessionRaises ==
    PolledWithoutSession =>
        /\ last.raised # ""
        /\ PollReads = <<>>

PolledUnknownName == last.op = "read_register" /\ last.arg \notin RegisterNames

\* C11: read_register with a name that is absent from the register set
\* returns None and never raises, whether the reader holds a client or not
\* (where a configured name raises RuntimeError), and issues no transport
\* read.
C11_UnknownNameIsNone ==
    PolledUnknownName =>
        /\ last.raised = ""
        /\ last.ret = NoneVal
        /\ PollReads = <<>>

C11_Witness ==
    /\ PolledUnknownName
    /\ last.arg = "nonexistent"
    /\ r_client = "None"
    /\ last.raised = ""
    /\ last.ret = NoneVal

\* read_register(name) for a configured name got as far as a transport read,
\* and the read returned a result that is not an error
ReadOneOk ==
    /\ last.op = "read_register"
    /\ last.arg \in RegisterNames
    /\ Len(PollReads) = 1
    /\ PollReads[1].out.kind = "ok"

PolledSpec == registers[FindRegister(last.arg)]

\* the float n / 10
IsTenths(v, n) == v.kind = "tenths" /\ v.h = 0 /\ v.l = n

\* C12: for a spec on a coil or discrete bank whose read succeeds, the poll
\* records 1.0 when the returned bit is true and 0.0 when it is false,
\* whatever the spec's data type.
C12_BitBankYieldsBit ==
    (ReadOneOk /\ PolledSpec.register_type \in {"coil", "discrete"}) =>
        /\ last.raised = ""
        /\ IsTenths(last.ret, IF PollReads[1].out.bits[1] THEN 10 ELSE 0)

\* the read succeeded but its words cannot be decoded as the spec asks:
\* too few words for the data type, or a data type that is not known
DecodeFaulted ==
    /\ ReadOneOk
    /\ PolledSpec.register_type \in WordBanks
    /\ \/ Len(PollReads[1].out.registers) < WordsNeeded(PolledSpec.data_type)
       \/ PolledSpec.data_type \notin DataTypes

\* what the caller of read_register got: the value, None or the exception
PollOutcome == IF last.raised # "" THEN Raise(last.raised) ELSE last.ret

\* C14: a decode fault is surfaced by the poll distinctly from a transport
\* read fault on the same register: what the caller gets after a decode
\* fault is what no failed read of that register gives.
C14_DecodeFaultDistinct ==
    DecodeFaulted =>
        \A f \in Failures : PollOutcome # _read_register(PolledSpec, f)

PolledAll == last.op = "read_all_registers" /\ last.raised = ""

\* C15: within one poll the reads are issued one after the other in the
\* declaration order of the register set, one read per spec: the k-th read
\* on the transport is the read of the k-th spec that has a bank to read,
\* and it has returned or failed (its record holds what came back) before
\* the next one is issued, so no two transactions are ever outstanding.
C15_ReadsSequential ==
    PolledAll =>
        /\ Len(PollReads) = Cardinality({ i \in 1 .. Len(registers) : KnownBank(i) })
        /\ \A i \in 1 .. Len(registers) :
              KnownBank(i) =>
                  PollReads[ReadPos(i)].address = registers[i].address
        /\ \A k \in 1 .. Len(PollReads) :
              /\ PollReads[k].out # NoResult
              /\ \A j \in 1 .. Len(PollReads) :
                    PollReads[j].address = PollReads[k].address => j = k
        /\ \A k \in 1 .. Len(trace) : IsRead(trace[k]) \/ trace[k].fn = "connect"

C15_Witness ==
    /\ PolledAll
    /\ Len(registers) = 2
    /\ Len(PollReads) = 2
    /\ PollReads[1].address = registers[1].address
    /\ PollReads[1].out.kind = "ModbusException"
    /\ PollReads[2].address = registers[2].address
    /\ PollReads[2].out.kind = "ok"

\* C18: the register set a reader polls is name-unique, so that
\* read_all_registers returns a map with exactly one entry per spec, its
\* keys in the insertion order of the specs.
C18_RegisterSetNameUnique ==
    PolledAll =>
        /\ NamesUnique
        /\ Len(last.data) = Len(registers)
        /\ DictKeys(last.data) = columns

\* v is the decoded value raw times scale / 10: for an integer raw, the
\* number of tenths raw * scale, that is v.h * 2^16 + v.l =
\* (raw.h * 2^16 + raw.l) * scale, written so that no product leaves the
\* integers TLC evaluates; for a float, that float with the scale
IsScaled(v, raw, scale) ==
    IF raw.kind = "int"
    THEN /\ v.kind = "tenths"
         /\ v.l \in 0 .. WordBase - 1
         /\ (v.h - raw.h * scale) * WordBase + v.l = raw.l * scale
    ELSE v = Val("f32", raw.h, raw.l, scale)

\* the read c is the one read the spec reg asks for
IsReadOf(c, reg) ==
    /\ c.fn = ReadFn(reg.register_type)
    /\ c.address = reg.address
    /\ c.count = reg.count
    /\ c.slave = UnitId

\* the read c returned the words the data type of reg needs
Decodable(c, reg) ==
    /\ c.out.kind = "ok"
    /\ Len(c.out.registers) >= WordsNeeded(reg.data_type)

\* C23: for a spec on the holding or input bank, the poll (of one name or
\* of all) issues exactly one read, on the spec's bank, for `count` words at
\* the spec's address with the reader's unit id; when the read succeeds the
\* value recorded is the decoding of the returned words in the spec's data
\* type times the spec's scale (raw 250, int16, scale 0.1 gives 25.0).
C23_ReadDecodeScale ==
    /\ (/\ last.op = "read_register"
        /\ last.arg \in RegisterNames
        /\ r_client = "client"
        /\ PolledSpec.register_type \in WordBanks) =>
           /\ Len(PollReads) = 1
           /\ IsReadOf(PollReads[1], PolledSpec)
           /\ Decodable(PollReads[1], PolledSpec) =>
                 /\ last.raised = ""
                 /\ IsScaled(last.ret,
                             _convert_raw_value(PollReads[1].out.registers,
                                                PolledSpec.data_type),
                             PolledSpec.scale)
                 /\ (/\ PolledSpec.data_type = "int16"
                     /\ PolledSpec.scale = 1
                     /\ PollReads[1].out.registers = <<250>>) => IsTenths(last.ret, 250)
    /\ (PolledAll /\ r_client = "client") =>
           \A i \in 1 .. Len(registers) :
              registers[i].register_type \in WordBanks =>
                  /\ IsReadOf(PollReads[ReadPos(i)], registers[i])
                  /\ (LastOfName(i) /\ Decodable(PollReads[ReadPos(i)], registers[i])) =>
                        IsScaled(DictGet(last.data, registers[i].name),
                                 _convert_raw_value(PollReads[ReadPos(i)].out.registers,
                                                    registers[i].data_type),
                                 registers[i].scale)

C23_Witness ==
    /\ last.op = "read_register"
    /\ last.arg = "temp"
    /\ PolledSpec.data_type = "int16"
    /\ PolledSpec.scale = 1
    /\ Len(PollReads) = 1
    /\ PollReads[1].fn = "read_input_registers"
    /\ PollReads[1].out = Result("ok", <<250>>, <<>>)
    /\ IsTenths(last.ret, 250)

(***************************************************************************)
(* Properties of the logging cycle                                         *)
(***************************************************************************)
CycleConnectFailed == Len(trace) >= 1 /\ trace[1] = ConnectCall(FALSE)

\* C9: when the reader cannot connect, log_once aborts before any register
\* read is issued, writes no row to the sink, and returns False.
C9_LogOnceConnectFailure ==
    CycleConnectFailed =>
        /\ pc = "idle"
        /\ last.op = "log_once"
        /\ last.flag = FALSE
        /\ PollReads = <<>>
        /\ CountCalls(trace, "write_row") = 0
        /\ sink.rows <= cycles - 1

C9_Witness ==
    /\ CycleConnectFailed
    /\ last.op = "log_once"
    /\ last.flag = FALSE
    /\ cycles = 2
    /\ sink.rows = 1

\* log_once has returned from a cycle whose connect succeeded
CycleOpened ==
    /\ pc = "idle"
    /\ last.op = "log_once"
    /\ Len(trace) >= 1
    /\ trace[1] = ConnectCall(TRUE)

SomeNone(data) == \E n \in 1 .. Len(data) : data[n].v = NoneVal

\* C16 as stated: a logging cycle in which some registers read as None
\* writes exactly one row to the sink and returns True.
C16_PartialRowAlwaysWritten ==
    (CycleOpened /\ SomeNone(last.data)) =>
        /\ last.flag = TRUE
        /\ sink.rows >= 1
        /\ sink.row = RowOf(last.data, columns)

\* C16, amended: registers that read as None do not fail the cycle.  The
\* poll hands log_once an entry for every register name, None for the
\* failed ones; log_once calls write_row exactly once with it, as the last
\* call of the cycle; and provided write_row does not raise, exactly one row
\* is appended, with an empty cell for exactly the None entries, and
\* log_once returns True.  If write_row raises, no row is written and
\* log_once returns False.
C16_PartialRowWritten ==
    CycleOpened =>
        /\ { last.data[n].k : n \in 1 .. Len(last.data) } = RegisterNames
        /\ CountCalls(trace, "write_row") = 1
        /\ trace[Len(trace)].fn = "write_row"
        /\ last.flag <=> (trace[Len(trace)].out.kind = "ok")
        /\ sink.rows <= cycles
        /\ last.flag =>
              /\ sink.rows >= 1
              /\ sink.row = RowOf(last.data, columns)
              /\ Len(sink.row) = Len(columns) + 1
              /\ \A i \in 1 .. Len(columns) :
                    (sink.row[i + 1] = EmptyCell)
                        <=> (DictGet(last.data, columns[i]) = NoneVal)

C16_Witness ==
    /\ CycleOpened
    /\ NamesUnique
    /\ Len(registers) = 2
    /\ DictGet(last.data, registers[1].name) = NoneVal
    /\ DictGet(last.data, registers[2].name) # NoneVal
    /\ last.flag = TRUE
    /\ cycles = 2
    /\ sink.rows = 2
    /\ sink.row[2] = EmptyCell
    /\ sink.row[3] # EmptyCell

(***************************************************************************)
(* Properties of the interval loop                                         *)
(***************************************************************************)
\* what a step of the loop may do once the flag is cleared and main is in
\* the wait or back at the loop test
StepAfterStop ==
    (~running /\ m_pc \in {"wait", "sleep", "loop"}) =>
        /\ cycles' = cycles
        /\ pc' = pc
        /\ m_pc = "wait" => m_pc' = "loop"
        /\ m_pc = "sleep" => (m_pc' = "wait" /\ waited' = waited + 1)
        /\ m_pc = "loop" => m_pc' = "stopped"

\* C17: in interval mode the flag is tested before every one-second sleep
\* of the wait between cycles.  Once a stop is requested during the wait, a
\* sleep in progress ends (at most one further increment), the test that
\* follows leaves the wait whatever is left of the interval, no sleep and
\* no logging cycle is started any more, and the loop exits.
C17_StopDuringWait == [][StepAfterStop]_vars

\* the loop has exited out of a wait that had run for one second of three
C17_Witness ==
    /\ m_pc = "stopped"
    /\ ~running
    /\ cycles = 1
    /\ interval = 3
    /\ waited = 1

\* log_once has come back to the loop that called it
ReturnedToLoop == m_pc = "log_once" /\ pc = "idle"

\* the cycle failed: the reader could not connect, or write_row raised
CycleFailed ==
    \/ trace[1] = ConnectCall(FALSE)
    \/ trace[Len(trace)] = WriteRowCall(FALSE)

\* C24: log_once never propagates an exception: it comes back to its
\* caller with a bool, False exactly when connecting or writing to the sink
\* failed (the poll of a connected reader raises nothing); and in interval
\* mode the loop is left only with the shutdown flag cleared, never because
\* a cycle failed.
C24_LogOnceNeverRaises ==
    /\ last.op = "log_once" => last.raised = ""
    /\ ReturnedToLoop =>
          /\ last.op = "log_once"
          /\ Len(trace) >= 1
          /\ last.flag <=> ~CycleFailed
    /\ m_pc = "stopped" => ~running

\* with the flag unset and the interval waited out, a second cycle has
\* started after a first one that failed (no row was written)
C24_Witness ==
    /\ running
    /\ cycles = 2
    /\ pc = "log_with"
    /\ m_pc = "log_once"
    /\ sink.rows = 0
    /\ waited = interval


(***************************************************************************)
(* The register set of a reader built from a configuration                 *)
(***************************************************************************)
\* the "registers" list the configuration holds, if any
ConfiguredList == Get(c_config, "registers", <<>>)

\* the definition says what the entry says, key by key
AsConfigured(reg, reg_config) ==
    \A key \in DOMAIN reg_config : reg[key] = reg_config[key]

\* C26: a reader built from a configuration whose "registers" key is missing
\* or holds an empty list polls DEFAULT_REGISTERS, never an empty set; a
\* non-empty list is taken entry by entry, in configuration order
C26_DefaultRegistersIfNone ==
    c_calls = 1 =>
        /\ c_reader.registers # <<>>
        /\ ConfiguredList = <<>> => c_reader.registers = DEFAULT_REGISTERS
        /\ ConfiguredList # <<>> =>
              /\ Len(c_reader.registers) = Len(ConfiguredList)
              /\ \A i \in 1 .. Len(ConfiguredList) :
                    AsConfigured(c_reader.registers[i], ConfiguredList[i])

\* the key is there and holds an empty list: the defaults are polled
C26_Witness ==
    /\ c_calls = 1
    /\ "registers" \in DOMAIN c_config
    /\ c_config["registers"] = <<>>
    /\ c_reader.registers = DEFAULT_REGISTERS


(***************************************************************************)
(* Transport sessions across logging cycles                                *)
(***************************************************************************)
\* call i of the trace is made while the session opened by an earlier
\* connect() of the same cycle is still open
InsideSession(calls, i) ==
    \E j \in 1 .. i - 1 :
        /\ calls[j] = ConnectCall(TRUE)
        /\ \A k \in j .. i : calls[k].fn # "close"

\* C27: over any sequence of logging cycles on one reader, whether they
\* succeed, fail to connect or fail later, at most one transport session is
\* open at a time, every register read is made inside an open session, and
\* no session is open between two cycles
C27_OneSessionPerCycle ==
    /\ sessions <= 1
    /\ pc = "idle" => sessions = 0
    /\ \A i \in 1 .. Len(trace) : IsRead(trace[i]) => InsideSession(trace, i)
    /\ pc = "log_with" => sessions = 1 /\ cli.connected

\* the second cycle has polled inside its session after a first cycle that
\* wrote no row
C27_Witness ==
    /\ cycles = 2
    /\ pc = "log_polled"
    /\ sessions = 1
    /\ sink.rows = 0
    /\ \E i \in 1 .. Len(trace) : IsRead(trace[i])


(***************************************************************************)
(* The sink write of a cycle comes after the transport release             *)
(***************************************************************************)
WriteIndexes == { i \in 1 .. Len(trace) : trace[i].fn = "write_row" }

\* C28: in a logging cycle write_row is called at most once, after the poll
\* has completed and the transport session has been closed, and never while
\* the session is open
C28_WriteAfterRelease ==
    /\ Cardinality(WriteIndexes) <= 1
    /\ sink.rows <= cycles
    /\ \A i \in WriteIndexes :
          /\ sessions = 0
          /\ r_client = "None"
          /\ last.op = "log_once"
          /\ \E j \in 1 .. i - 1 :
                /\ trace[j].fn = "close"
                /\ \A k \in 1 .. Len(trace) : IsRead(trace[k]) => k < j
    /\ sessions > 0 => WriteIndexes = {}

\* a polled cycle has written its row: the trace holds the read, the close
\* and then the write
C28_Witness ==
    /\ pc = "idle"
    /\ sink.rows = 1
    /\ WriteIndexes = {Len(trace)}
    /\ \E k \in 1 .. Len(trace) : IsRead(trace[k])


(***************************************************************************)
(* Shutdown of the interval loop                                           *)
(***************************************************************************)
\* C29: once signal_handler has cleared the flag it stays cleared; the main
\* thread running on and its cycles terminating, the interval loop then
\* exits, and from the moment the flag is cleared at most one more logging
\* cycle is started
C29_StopTerminatesLoop ==
    /\ [](~running => []~running)
    /\ \A n \in 0 .. MaxCycles :
          []((~running /\ cycles = n) => [](cycles <= n + 1))
    /\ ~running ~> (m_pc = "stopped")

\* the loop has exited on a cleared flag right after its second cycle
C29_Witness ==
    /\ m_pc = "stopped"
    /\ ~running
    /\ cycles = 2
    /\ waited = 0
    /\ pc = "idle"


(***************************************************************************)
(* A register type that names no bank                                      *)
(***************************************************************************)
\* C30: a register type outside holding, input, coil and discrete never
\* causes a transport read.  The poll records None for such a spec and goes
\* on with the specs after it; the scanner skips every address of its range,
\* returns an empty result and still closes the transport exactly once.
C30_UnknownBankNoRead ==
    /\ PolledAll =>
          /\ \A k \in 1 .. Len(PollReads) :
                \E j \in 1 .. Len(registers) :
                    KnownBank(j) /\ IsReadOf(PollReads[k], registers[j])
          /\ \A i \in 1 .. Len(registers) : ~KnownBank(i) =>
                /\ DictHas(last.data, registers[i].name)
                /\ LastOfName(i) => DictGet(last.data, registers[i].name) = NoneVal
                /\ \A j \in i + 1 .. Len(registers) :
                      /\ DictHas(last.data, registers[j].name)
                      /\ KnownBank(j) =>
                            \E k \in 1 .. Len(PollReads) :
                                IsReadOf(PollReads[k], registers[j])
    /\ s_type \notin BankKinds =>
          /\ ScanReads = <<>>
          /\ s_found = <<>>
          /\ s_pc = "loop" => s_calls = <<ConnectCall(TRUE)>>
          /\ s_pc = "returned" =>
                /\ s_calls = <<ConnectCall(TRUE), CloseCall>>
                /\ s_addr >= s_end

\* a poll of a spec with no bank and then a float32 spec: None for the
\* first, one read and a value for the second
C30_Witness ==
    /\ PolledAll
    /\ Len(registers) = 2
    /\ ~KnownBank(1)
    /\ KnownBank(2)
    /\ Len(PollReads) = 1
    /\ PollReads[1].out.kind = "ok"
    /\ DictGet(last.data, registers[1].name) = NoneVal
    /\ DictGet(last.data, registers[2].name) # NoneVal

\* the scanner has gone through a range of three addresses of no bank
C30_ScanSkipped ==
    /\ s_type \notin BankKinds
    /\ s_pc = "returned"
    /\ s_end - s_start = 3
    /\ s_calls = <<ConnectCall(TRUE), CloseCall>>

====
